---------------------------- MODULE Spec2Model ----------------------------
(***************************************************************************)
(* A model of the tarpit filesystem (src/src/fs/mod.rs, src/src/fs/inode.rs)*)
(* and of the mount that serves it.  The mount of this filesystem is not    *)
(* among the sources (src/src/main.rs mounts an older filesystem type of its*)
(* own, which is not modelled); the mount and the arrival of requests follow*)
(* sections 5 and 6 of the specification.                                    *)
(*                                                                          *)
(* The program packs two 32-bit fields into one u64 inode number.  The      *)
(* model keeps that layout but makes each field FieldBits wide, so that the *)
(* wrap of the directory field (MAX_DIRS + 1 does not fit) is within TLC's  *)
(* integers.  Every comparison, shift and mask is the one of the source with*)
(* 32 replaced by FieldBits.                                                *)
(*                                                                          *)
(* Strings are sequences of one-character strings, so that formatting and   *)
(* parsing of directory names are computed, not assumed.                    *)
(***************************************************************************)
EXTENDS Integers, Sequences, FiniteSets, TLC

VARIABLES
    phase,      \* "builder" | "rejected" (the builder panicked) | "built" |
                \* "mounted" | "panicked" (a handler panicked) |
                \* "aborted" (an allocation failed and the process aborted)
    num_dirs,   \* TarpitBuilder.num_dirs, then TarpitFs.num_dirs
    num_files,  \* TarpitBuilder.num_files, then TarpitFs.num_files
    req,        \* the request handed to the handler that ran last (or runs now)
    reply,      \* what that handler replied; tag "none" while it has not replied
    pc,         \* the handler borrowing the filesystem (&mut self):
                \* "idle" (none) | "sleep" | "done" (replied) | "panic" |
                \* "abort"
    entries,    \* readdir's local Vec while it sleeps
    waiting,    \* requests the kernel has issued that no handler has been given yet
    codec,      \* last use of the inode codec (SpecCodec)
    walk        \* a client paging through one directory (SpecWalk)

vars == <<phase, num_dirs, num_files, req, reply, pc, entries, waiting,
          codec, walk>>

-----------------------------------------------------------------------------
(* Bounds *)

\* width of each half of an inode number (32 in the source)
FieldBits == 4
\* largest readdir offset the kernel sends in the model
MaxOffset == 6
\* requests that can be waiting for the runtime at once
MaxWaiting == 1

RECURSIVE Pow2(_)
Pow2(n) == IF n = 0 THEN 1 ELSE 2 * Pow2(n - 1)

FieldSize == Pow2(FieldBits)
\* u64 in the source: two fields
U64Max == FieldSize * FieldSize - 1

MAX_DIRS == FieldSize - 1
MAX_FILES == FieldSize - 1

DEFAULT_NUM_DIRS == 10
DEFAULT_NUM_FILES == 10
HELLO_FILE_NUM == 2
ROOT_INO == 1

-----------------------------------------------------------------------------
(* Option<T> *)

None == <<>>
Some(x) == <<x>>
IsSome(o) == Len(o) = 1
Unwrap(o) == o[1]

-----------------------------------------------------------------------------
(* Strings *)

Digits == <<"0", "1", "2", "3", "4", "5", "6", "7", "8", "9">>
IsDigit(c) == \E d \in 1..10 : Digits[d] = c
DigitVal(c) == (CHOOSE d \in 1..10 : Digits[d] = c) - 1

\* a byte that is not valid UTF-8
BadByte == "\\xFF"

PIT == <<"p", "i", "t">>
DOT == <<".">>
DOTDOT == <<".", ".">>
HELLO_TXT == <<"h", "e", "l", "l", "o", ".", "t", "x", "t">>
HELLO_TXT_CONTENT ==
    <<"H", "e", "l", "l", "o", " ", "W", "o", "r", "l", "d", "!", "\n">>

\* Display for u64: decimal, no leading zeros
RECURSIVE Decimal(_)
Decimal(n) ==
    IF n < 10 THEN <<Digits[n + 1]>>
    ELSE Decimal(n \div 10) \o <<Digits[(n % 10) + 1]>>

\* {:03}: pad with zeros on the left to a width of at least 3
RECURSIVE ZeroPad3(_)
ZeroPad3(s) == IF Len(s) >= 3 THEN s ELSE ZeroPad3(<<"0">> \o s)

dir_name(num) == PIT \o ZeroPad3(Decimal(num))

\* str::strip_prefix("pit")
strip_prefix_pit(name) ==
    IF Len(name) >= 3 /\ SubSeq(name, 1, 3) = PIT
    THEN Some(SubSeq(name, 4, Len(name)))
    ELSE None

\* the digits of s, most significant first, folded as u64 does: None on overflow
RECURSIVE ParseDigits(_, _)
ParseDigits(s, acc) ==
    IF s = <<>> THEN Some(acc)
    ELSE IF ~IsDigit(Head(s)) THEN None
    ELSE IF acc * 10 + DigitVal(Head(s)) > U64Max THEN None
    ELSE ParseDigits(Tail(s), acc * 10 + DigitVal(Head(s)))

\* <u64 as FromStr>::from_str: an optional '+', then one or more digits
parse_u64(s) ==
    IF s = <<>> THEN None
    ELSE IF Head(s) = "+" \/ Head(s) = "-"
         THEN IF Tail(s) = <<>> THEN None
              ELSE IF Head(s) = "+" THEN ParseDigits(Tail(s), 0)
              ELSE None
    ELSE ParseDigits(s, 0)

\* OsStr::to_str
to_str(name) ==
    IF \E i \in 1..Len(name) : name[i] = BadByte THEN None ELSE Some(name)

\* `offset as usize` of a negative i64 is at least 2^63: beyond any length
AsUsizeExceeds(offset, n) == offset < 0 \/ offset > n

-----------------------------------------------------------------------------
(* Inode codec: src/src/fs/inode.rs *)

DirInode(d) == [kind |-> "Dir", dir |-> d, file |-> 0]
FileInode(parent, f) == [kind |-> "File", dir |-> parent.dir, file |-> f]
\* assert!(dir_number != 0) failed
InodePanic == [kind |-> "Panic", dir |-> 0, file |-> 0]

DirInode_from_number(num) ==
    IF num > MAX_DIRS THEN None ELSE Some(DirInode(num))

FileInode_from_number(parent, num) ==
    IF num > MAX_FILES THEN None ELSE Some(FileInode(parent, num))

DirInode_to_u64(inode) == inode.dir

FileInode_to_u64(inode) == inode.file * FieldSize + inode.dir

Inode_to_u64(inode) ==
    IF inode.kind = "Dir" THEN DirInode_to_u64(inode) ELSE FileInode_to_u64(inode)

\* from_ino_u64 with the low field masked one bit short (0x7FFF_FFFF)
from_ino_u64_short_mask(ino) ==
    LET dir_number == ino % (FieldSize \div 2)
        file_number == (ino \div FieldSize) % FieldSize
    IN  IF file_number = 0
        THEN IF dir_number = 0 THEN InodePanic ELSE DirInode(dir_number)
        ELSE FileInode(DirInode(dir_number), file_number)

from_ino_u64(ino) ==
    LET dir_number == ino % FieldSize
        file_number == (ino \div FieldSize) % FieldSize
    IN  IF file_number = 0
        THEN IF dir_number = 0 THEN InodePanic ELSE DirInode(dir_number)
        ELSE FileInode(DirInode(dir_number), file_number)

-----------------------------------------------------------------------------
(* Attributes and the tree: src/src/fs/mod.rs *)

EPOCH == 1751364000

NoAttr == [ino |-> 0, size |-> 0, blocks |-> 0, time |-> 0, kind |-> "None",
           perm |-> 0, nlink |-> 0]

\* perm 0o755
dir_attr(inode) ==
    [ino |-> DirInode_to_u64(inode), size |-> 0, blocks |-> 0, time |-> EPOCH,
     kind |-> "Directory", perm |-> 493, nlink |-> 2]

\* perm 0o644
file_attr(inode) ==
    [ino |-> FileInode_to_u64(inode), size |-> 13, blocks |-> 1, time |-> EPOCH,
     kind |-> "RegularFile", perm |-> 420, nlink |-> 1]

dir_num_to_inode(nd, num) ==
    IF num <= nd THEN DirInode_from_number(num + 1) ELSE None

dir_name_to_inode(nd, name) ==
    LET rest == strip_prefix_pit(name)
    IN  IF ~IsSome(rest) THEN None
        ELSE LET num == parse_u64(Unwrap(rest))
             IN  IF ~IsSome(num) THEN None
                 ELSE dir_num_to_inode(nd, Unwrap(num))

Dirent(ino, kind, name) == [ino |-> ino, kind |-> kind, name |-> name]

\* None stands for the panic of unwrap()
dir_num_to_dirent(nd, num) ==
    LET ino == dir_num_to_inode(nd, num)
    IN  IF IsSome(ino)
        THEN Some(Dirent(DirInode_to_u64(Unwrap(ino)), "Directory", dir_name(num)))
        ELSE None

inode_attr(nd, nf, inode) ==
    IF inode.kind = "Dir"
    THEN IF inode.dir <= nd THEN Some(dir_attr(inode)) ELSE None
    ELSE IF inode.file <= nf THEN Some(file_attr(inode)) ELSE None


-----------------------------------------------------------------------------
(* Replies: fuser's ReplyEntry, ReplyAttr, ReplyData, ReplyDirectory *)

NoReply == [tag |-> "none", errno |-> "", attr |-> NoAttr, data |-> <<>>,
            entries |-> <<>>]
ReplyError(e) == [NoReply EXCEPT !.tag = "error", !.errno = e]
ReplyEntry(a) == [NoReply EXCEPT !.tag = "entry", !.attr = a]
ReplyAttr(a) == [NoReply EXCEPT !.tag = "attr", !.attr = a]
ReplyData(d) == [NoReply EXCEPT !.tag = "data", !.data = d]
ReplyDir(es) == [NoReply EXCEPT !.tag = "dir", !.entries = es]
\* the handler panicked before replying
ReplyPanic == [NoReply EXCEPT !.tag = "panic"]
\* the process aborted before the handler replied
ReplyAbort == [NoReply EXCEPT !.tag = "abort"]

NoReq == [op |-> "none", ino |-> 0, name |-> <<>>, offset |-> 0, cap |-> 0]

-----------------------------------------------------------------------------
(* The four handlers of impl Filesystem for TarpitFs, as what they reply *)

lookup(nd, parent, name) ==
    IF ~IsSome(to_str(name)) THEN ReplyError("ENOENT")
    ELSE IF parent = 1
    THEN LET inode == dir_name_to_inode(nd, name)
         IN  IF IsSome(inode) THEN ReplyEntry(dir_attr(Unwrap(inode)))
             ELSE ReplyError("ENOENT")
    ELSE LET parent_inode == from_ino_u64(parent)
         IN  IF parent_inode.kind = "Panic" THEN ReplyPanic
             ELSE IF parent_inode.kind # "Dir" THEN ReplyError("ENOENT")
             ELSE IF parent_inode.dir > nd + 1 THEN ReplyError("ENOENT")
             ELSE IF name = HELLO_TXT
             THEN LET file == FileInode_from_number(parent_inode, 2)
                  IN  IF IsSome(file) THEN ReplyEntry(file_attr(Unwrap(file)))
                      ELSE ReplyPanic
             ELSE ReplyError("ENOENT")

getattr(nd, nf, ino) ==
    LET inode == from_ino_u64(ino)
    IN  IF inode.kind = "Panic" THEN ReplyPanic
        ELSE LET attr == inode_attr(nd, nf, inode)
             IN  IF IsSome(attr) THEN ReplyAttr(Unwrap(attr))
                 ELSE ReplyError("ENOENT")

\* &bytes[offset as usize..]: panics when the start is beyond the length
slice_from(bytes, offset) ==
    IF AsUsizeExceeds(offset, Len(bytes)) THEN None
    ELSE Some(SubSeq(bytes, offset + 1, Len(bytes)))

\* read that tests the directory number against the tree first: a directory
\* identifier outside the tree is answered ENOENT instead of EISDIR
read_range_first(ino, offset) ==
    LET inode == from_ino_u64(ino)
    IN  IF inode.kind = "Panic" THEN ReplyPanic
        ELSE IF inode.kind = "Dir"
        THEN IF inode.dir > num_dirs + 1 THEN ReplyError("ENOENT")
             ELSE ReplyError("EISDIR")
        ELSE IF inode.file = 2
        THEN LET data == slice_from(HELLO_TXT_CONTENT, offset)
             IN  IF IsSome(data) THEN ReplyData(Unwrap(data)) ELSE ReplyPanic
        ELSE ReplyError("ENOENT")

read(ino, offset) ==
    LET inode == from_ino_u64(ino)
    IN  IF inode.kind = "Panic" THEN ReplyPanic
        ELSE IF inode.kind = "Dir" THEN ReplyError("EISDIR")
        ELSE IF inode.file = 2
        THEN LET data == slice_from(HELLO_TXT_CONTENT, offset)
             IN  IF IsSome(data) THEN ReplyData(Unwrap(data)) ELSE ReplyPanic
        ELSE ReplyError("ENOENT")

\* Memory: every allocation of a call asks the allocator, and the process
\* aborts at the first one it refuses.  Which one that is, if any, is the
\* machine's choice: `fail` is the number, within the call, of the allocation
\* that is refused, NoFailure when all are granted.
NoFailure == 0
alloc_fails(k, fail) == fail # NoFailure /\ fail = k

\* A panic allocates too, before it unwinds: a box for its payload and the
\* exception object.  When one of these is refused the process aborts
\* instead of unwinding.
PanicAllocs == 2
panic_refused(used, fail) ==
    \E k \in (used + 1)..(used + PanicAllocs) : alloc_fails(k, fail)

\* what becomes of a handler's outcome r: a panic unwinds when its
\* allocations are granted and is an abort of the process when one is refused
unwinds(r, refused) == IF r.tag = "panic" /\ refused THEN ReplyAbort ELSE r

BuildOk(es) == [ok |-> TRUE, reply |-> NoReply, entries |-> es]
BuildEnds(r) == [ok |-> FALSE, reply |-> r, entries |-> <<>>]

\* (1..num_dirs + 1).map(dir_num_to_dirent) collected after acc, from `from`
\* on, after `used` allocations of the call: each dirent unwraps its inode
\* (a panic when there is none) and then allocates its name
RECURSIVE subdirs(_, _, _, _, _)
subdirs(nd, from, acc, fail, used) ==
    IF from >= nd + 1 THEN BuildOk(acc)
    ELSE IF ~IsSome(dir_num_to_inode(nd, from))
    THEN BuildEnds(unwinds(ReplyPanic, panic_refused(used, fail)))
    ELSE IF alloc_fails(used + 1, fail) THEN BuildEnds(ReplyAbort)
    ELSE subdirs(nd, from + 1,
                 Append(acc, Unwrap(dir_num_to_dirent(nd, from))),
                 fail, used + 1)

\* readdir up to the sleep: the entries Vec, or the reply that ends the
\* handler.  The root allocates in entries.reserve, in the names "." and
\* ".." and in one name for each subdirectory; a subdirectory allocates its
\* three names and then the Vec that entries.extend fills.
readdir_entries(nd, ino, fail) ==
    LET inode == from_ino_u64(ino)
    IN  IF inode.kind = "Panic"
        THEN BuildEnds(unwinds(ReplyPanic, panic_refused(0, fail)))
        ELSE IF inode.kind # "Dir" THEN BuildEnds(ReplyError("ENOTDIR"))
        ELSE IF inode.dir = 1
        THEN IF \E k \in 1..3 : alloc_fails(k, fail)
             THEN BuildEnds(ReplyAbort)
             ELSE subdirs(nd, 1, <<Dirent(1, "Directory", DOT),
                                   Dirent(1, "Directory", DOTDOT)>>, fail, 3)
        ELSE IF inode.dir <= nd + 1
        THEN LET file == FileInode_from_number(inode, 2)
             IN  IF ~IsSome(file)
                 THEN BuildEnds(unwinds(ReplyPanic, panic_refused(0, fail)))
                 ELSE IF \E k \in 1..4 : alloc_fails(k, fail)
                 THEN BuildEnds(ReplyAbort)
                 ELSE BuildOk(<<Dirent(ino, "Directory", DOT),
                                Dirent(1, "Directory", DOTDOT),
                                Dirent(FileInode_to_u64(Unwrap(file)),
                                       "RegularFile", HELLO_TXT)>>)
        ELSE BuildEnds(ReplyError("ENOENT"))

\* ReplyDirectory::add: TRUE (and nothing added) when the buffer is full
reply_add_full(buf, cap) == Len(buf) >= cap

\* the loop after the sleep, at 0-based index i of es, buf filled so far
RECURSIVE readdir_emit(_, _, _, _)
readdir_emit(es, i, buf, cap) ==
    IF i >= Len(es) THEN buf
    ELSE IF reply_add_full(buf, cap) THEN buf
    ELSE readdir_emit(es, i + 1,
                      Append(buf, [ino |-> es[i + 1].ino, offset |-> i + 1,
                                   kind |-> es[i + 1].kind, name |-> es[i + 1].name]),
                      cap)

\* enumerate().skip(offset as usize): the index the loop starts at
skip_to(es, offset) == IF AsUsizeExceeds(offset, Len(es)) THEN Len(es) ELSE offset

readdir_after_sleep(es, offset, cap) ==
    ReplyDir(readdir_emit(es, skip_to(es, offset), <<>>, cap))


-----------------------------------------------------------------------------
(* Inputs *)

Min(a, b) == IF a < b THEN a ELSE b

\* arguments of TarpitBuilder::dirs and ::files
DirsArgs == {0, 1, 2, 3, MAX_DIRS - 1, MAX_DIRS, MAX_DIRS + 1}
FilesArgs == {0, 1, 2, MAX_FILES, MAX_FILES + 1}

\* inode numbers the kernel sends: every directory field, some file fields
FileFields == {0, 1, 2, 3, MAX_FILES}
InoArgs == {f * FieldSize + d : f \in FileFields, d \in 0..MAX_DIRS}
DirLikeArgs == {f * FieldSize + d : f \in {0, 2}, d \in 0..MAX_DIRS}

\* names the kernel looks up
OddNames ==
    { PIT, PIT \o <<"1">>, PIT \o <<"+", "1">>, PIT \o <<"-", "1">>,
      PIT \o <<"+">>, PIT \o <<"0", "0", "0", "1">>, PIT \o <<"0", "0", "x">>,
      <<"p", "i">> \o <<"0", "0", "1">>, PIT \o Decimal(U64Max + 1),
      PIT \o <<"0", "0", "1", BadByte>>, HELLO_TXT, DOT }
NameArgs == {dir_name(n) : n \in 0..(MAX_DIRS + 1)} \cup OddNames

ReadOffsets == {-1, 0, 6, 12, 13, 14}
ReaddirOffsets == (-1)..MaxOffset
\* capacity of the reply buffer, in entries; BigCap holds any listing
BigCap == MAX_DIRS + 2

\* the allocation of a readdir call that the allocator refuses: none, the
\* reserve, ".", "..", the first or second name after them (the Vec of a
\* subdirectory), the last name of the largest root listing that reaches
\* its end, or one of the two of the panic that follows it
FailArgs == {NoFailure, 1, 2, 3, 4, 5, MAX_DIRS + 2, MAX_DIRS + 3,
             MAX_DIRS + 4}
CapArgs == {1, 2, BigCap}

-----------------------------------------------------------------------------
(* State machine *)

NoCodec == [op |-> "none", n |-> 0, p |-> 0, f |-> 0, enc |-> None,
            dec |-> InodePanic]
NoWalk == [st |-> "off", ino |-> 0, cap |-> 0, next |-> 0, got |-> <<>>,
           calls |-> 0]

\* TarpitFs::builder(): TarpitBuilder::default()
Init ==
    /\ phase = "builder"
    /\ num_dirs = DEFAULT_NUM_DIRS
    /\ num_files = DEFAULT_NUM_FILES
    /\ req = NoReq
    /\ reply = NoReply
    /\ pc = "idle"
    /\ entries = <<>>
    /\ waiting = 0
    /\ codec = NoCodec
    /\ walk = NoWalk

\* TarpitBuilder::dirs
dirs(n) ==
    /\ phase = "builder"
    /\ IF n > MAX_DIRS
       THEN phase' = "rejected" /\ UNCHANGED num_dirs
       ELSE num_dirs' = n /\ UNCHANGED phase
    /\ UNCHANGED <<num_files, req, reply, pc, entries, waiting, codec, walk>>

\* TarpitBuilder::files
files(n) ==
    /\ phase = "builder"
    /\ IF n > MAX_FILES
       THEN phase' = "rejected" /\ UNCHANGED num_files
       ELSE num_files' = n /\ UNCHANGED phase
    /\ UNCHANGED <<num_dirs, req, reply, pc, entries, waiting, codec, walk>>

\* TarpitBuilder::build
build ==
    /\ phase = "builder"
    /\ phase' = "built"
    /\ UNCHANGED <<num_dirs, num_files, req, reply, pc, entries, waiting, codec, walk>>

\* the built filesystem is handed to the filesystem runtime, which starts to
\* dispatch requests to its handlers (specification, sections 2 and 6)
mount ==
    /\ phase = "built"
    /\ phase' = "mounted"
    /\ UNCHANGED <<num_dirs, num_files, req, reply, pc, entries, waiting, codec, walk>>

\* the kernel issues a request; it waits until the runtime gives it to a
\* handler (specification, section 5)
Arrive ==
    /\ phase = "mounted"
    /\ waiting < MaxWaiting
    /\ waiting' = waiting + 1
    /\ UNCHANGED <<phase, num_dirs, num_files, req, reply, pc, entries, codec, walk>>

\* A handler is called with &mut self: whatever runtime calls it, only when
\* no other handler of the same filesystem runs.
CanDispatch == phase = "mounted" /\ pc = "idle" /\ waiting > 0

\* a handler replies r and returns, or panics, or the process aborts
Finish(r) ==
    /\ reply' = r
    /\ pc' = IF r.tag \in {"panic", "abort"} THEN r.tag ELSE "done"
    /\ phase' = IF r.tag = "panic" THEN "panicked"
              ELSE IF r.tag = "abort" THEN "aborted"
              ELSE phase

Request(op, ino, name, offset, cap) ==
    [op |-> op, ino |-> ino, name |-> name, offset |-> offset, cap |-> cap]

HandleLookup(parent, name, refused) ==
    /\ CanDispatch
    /\ req' = Request("lookup", parent, name, 0, 0)
    /\ Finish(unwinds(lookup(num_dirs, parent, name), refused))
    /\ UNCHANGED <<num_dirs, num_files, entries>>

HandleGetattr(ino, refused) ==
    /\ CanDispatch
    /\ req' = Request("getattr", ino, <<>>, 0, 0)
    /\ Finish(unwinds(getattr(num_dirs, num_files, ino), refused))
    /\ UNCHANGED <<num_dirs, num_files, entries>>

HandleRead(ino, offset, refused) ==
    /\ CanDispatch
    /\ req' = Request("read", ino, <<>>, offset, 0)
    /\ Finish(unwinds(read(ino, offset), refused))
    /\ UNCHANGED <<num_dirs, num_files, entries>>

\* readdir up to std::thread::sleep
HandleReaddir(ino, offset, cap, fail) ==
    /\ CanDispatch
    /\ req' = Request("readdir", ino, <<>>, offset, cap)
    /\ LET built == readdir_entries(num_dirs, ino, fail)
       IN  IF built.ok
           THEN /\ entries' = built.entries
                /\ pc' = "sleep"
                /\ UNCHANGED <<phase, reply>>
           ELSE /\ Finish(built.reply)
                /\ UNCHANGED entries
    /\ UNCHANGED <<num_dirs, num_files>>

Lookup ==
    /\ CanDispatch
    /\ \E parent \in DirLikeArgs, name \in NameArgs, refused \in BOOLEAN :
          HandleLookup(parent, name, refused)
    /\ waiting' = waiting - 1
    /\ UNCHANGED <<codec, walk>>

Getattr ==
    /\ CanDispatch
    /\ \E ino \in InoArgs, refused \in BOOLEAN : HandleGetattr(ino, refused)
    /\ waiting' = waiting - 1
    /\ UNCHANGED <<codec, walk>>

Read ==
    /\ CanDispatch
    /\ \E ino \in InoArgs, offset \in ReadOffsets, refused \in BOOLEAN :
          HandleRead(ino, offset, refused)
    /\ waiting' = waiting - 1
    /\ UNCHANGED <<codec, walk>>

Readdir ==
    /\ CanDispatch
    /\ \E ino \in DirLikeArgs, offset \in ReaddirOffsets, cap \in CapArgs,
          fail \in FailArgs :
          HandleReaddir(ino, offset, cap, fail)
    /\ waiting' = waiting - 1
    /\ UNCHANGED <<codec, walk>>

\* readdir from the end of the sleep to reply.ok()
ReaddirWake ==
    /\ pc = "sleep"
    /\ Finish(readdir_after_sleep(entries, req.offset, req.cap))
    /\ entries' = <<>>
    /\ UNCHANGED <<num_dirs, num_files, req, waiting, codec, walk>>

\* the handler has returned: the runtime can give it the next request
Return ==
    /\ pc = "done"
    /\ pc' = "idle"
    /\ req' = NoReq
    /\ reply' = NoReply
    /\ UNCHANGED <<phase, num_dirs, num_files, entries, waiting, codec, walk>>

Next ==
    \/ \E n \in DirsArgs : dirs(n)
    \/ \E n \in FilesArgs : files(n)
    \/ build
    \/ mount
    \/ Arrive
    \/ Lookup
    \/ Getattr
    \/ Read
    \/ Readdir
    \/ ReaddirWake
    \/ Return

Spec == Init /\ [][Next]_vars


-----------------------------------------------------------------------------
(* The codec on its own: encode, then decode what was encoded *)

\* u64::from(DirInode::from_number(n)?) and Inode::from_ino_u64 of it
EncodeDir(n) ==
    /\ codec.op = "none"
    /\ LET inode == DirInode_from_number(n)
           enc == IF IsSome(inode) THEN Some(DirInode_to_u64(Unwrap(inode))) ELSE None
       IN  codec' = [op |-> "dir", n |-> n, p |-> 0, f |-> 0, enc |-> enc,
                     dec |-> IF IsSome(enc) THEN from_ino_u64(Unwrap(enc))
                             ELSE InodePanic]
    /\ UNCHANGED <<phase, num_dirs, num_files, req, reply, pc, entries, waiting, walk>>

\* u64::from(FileInode::from_number(parent, f)?) and Inode::from_ino_u64 of it
EncodeFile(p, f) ==
    /\ codec.op = "none"
    /\ LET parent == Unwrap(DirInode_from_number(p))
           inode == FileInode_from_number(parent, f)
           enc == IF IsSome(inode) THEN Some(FileInode_to_u64(Unwrap(inode))) ELSE None
       IN  codec' = [op |-> "file", n |-> 0, p |-> p, f |-> f, enc |-> enc,
                     dec |-> IF IsSome(enc) THEN from_ino_u64(Unwrap(enc))
                             ELSE InodePanic]
    /\ UNCHANGED <<phase, num_dirs, num_files, req, reply, pc, entries, waiting, walk>>

\* Inode::from_ino_u64 of any u64
Decode(ino) ==
    /\ codec.op = "none"
    /\ codec' = [op |-> "decode", n |-> 0, p |-> 0, f |-> 0, enc |-> Some(ino),
                 dec |-> from_ino_u64(ino)]
    /\ UNCHANGED <<phase, num_dirs, num_files, req, reply, pc, entries, waiting, walk>>

CodecReset ==
    /\ codec.op # "none"
    /\ codec' = NoCodec
    /\ UNCHANGED <<phase, num_dirs, num_files, req, reply, pc, entries, waiting, walk>>

NextCodec ==
    \/ \E n \in 0..(MAX_DIRS + 1) : EncodeDir(n)
    \/ \E p \in 0..MAX_DIRS, f \in 0..(MAX_FILES + 1) : EncodeFile(p, f)
    \/ \E ino \in 0..U64Max : Decode(ino)
    \/ CodecReset

SpecCodec == Init /\ [][NextCodec]_vars

-----------------------------------------------------------------------------
(* A client that lists one directory: it calls readdir from offset 0, then   *)
(* from the last next-offset it was given, until a call emits nothing.       *)

WalkDirs == 1..MAX_DIRS

WalkStart(ino, cap) ==
    /\ phase = "mounted"
    /\ walk.st = "off"
    /\ walk' = [st |-> "ready", ino |-> ino, cap |-> cap, next |-> 0,
                got |-> <<>>, calls |-> 0]
    /\ UNCHANGED <<phase, num_dirs, num_files, req, reply, pc, entries, waiting, codec>>

\* the client's call reaches the kernel, which issues a readdir request
WalkIssue ==
    /\ walk.st = "ready"
    /\ waiting < MaxWaiting
    /\ waiting' = waiting + 1
    /\ walk' = [walk EXCEPT !.st = "issued"]
    /\ UNCHANGED <<phase, num_dirs, num_files, req, reply, pc, entries, codec>>

\* the runtime gives the request to readdir
WalkServe ==
    /\ walk.st = "issued"
    /\ \E fail \in FailArgs : HandleReaddir(walk.ino, walk.next, walk.cap, fail)
    /\ waiting' = waiting - 1
    /\ walk' = [walk EXCEPT !.st = "called", !.calls = @ + 1]
    /\ UNCHANGED codec

\* the client takes the reply; the handler has returned
WalkCollect ==
    /\ walk.st = "called"
    /\ pc = "done"
    /\ walk' = IF reply.tag # "dir" THEN [walk EXCEPT !.st = "failed"]
               ELSE IF reply.entries = <<>> THEN [walk EXCEPT !.st = "done"]
               ELSE [walk EXCEPT !.st = "ready",
                                 !.got = @ \o reply.entries,
                                 !.next = reply.entries[Len(reply.entries)].offset]
    /\ pc' = "idle"
    /\ req' = NoReq
    /\ reply' = NoReply
    /\ UNCHANGED <<phase, num_dirs, num_files, entries, waiting, codec>>

NextWalk ==
    \/ \E n \in DirsArgs : dirs(n)
    \/ \E n \in FilesArgs : files(n)
    \/ build
    \/ mount
    \/ \E ino \in WalkDirs, cap \in CapArgs : WalkStart(ino, cap)
    \/ WalkIssue
    \/ WalkServe
    \/ ReaddirWake
    \/ WalkCollect

SpecWalk == Init /\ [][NextWalk]_vars

-----------------------------------------------------------------------------
(* What the claims speak of *)

\* the two fields of an identifier
LowField(ino) == ino % FieldSize
HighField(ino) == ino \div FieldSize

\* the handler of req has replied or has panicked, or the process has aborted
Answered == pc \in {"done", "panic", "abort"}
\* no allocation of the call has been refused
Granted == pc # "abort"
NotFound == ReplyError("ENOENT")

\* directory numbers of the root and of the num_dirs subdirectories
IsTreeDir(d) == 1 <= d /\ d <= num_dirs + 1

-----------------------------------------------------------------------------
\* C1: getattr on an identifier with high field zero and low field d >= 1
\* replies directory attributes iff 1 <= d <= num_dirs + 1, and replies
\* Not-Found for d >= num_dirs + 2.
C1_GetattrDirectoryRange ==
    (req.op = "getattr" /\ Answered /\ HighField(req.ino) = 0
        /\ LowField(req.ino) >= 1)
    => /\ (reply.tag = "attr" /\ reply.attr.kind = "Directory")
            <=> IsTreeDir(LowField(req.ino))
       /\ LowField(req.ino) >= num_dirs + 2 => reply = NotFound

\* an identifier that getattr accepts with the given kind, that readdir accepts
\* when a directory and read accepts when a file
AcceptedByAll(ino, kind) ==
    /\ getattr(num_dirs, num_files, ino).tag = "attr"
    /\ getattr(num_dirs, num_files, ino).attr.kind = kind
    /\ kind = "Directory" => readdir_entries(num_dirs, ino, NoFailure).ok
    /\ kind = "RegularFile" => read(ino, 0).tag = "data"

\* C2: every identifier a successful lookup returns, and every identifier
\* readdir emits, is accepted by getattr with the same kind, by readdir when
\* it is a directory and by read when it is a file.
C2_OperationsAgree ==
    /\ (req.op = "lookup" /\ reply.tag = "entry")
       => AcceptedByAll(reply.attr.ino, reply.attr.kind)
    /\ (req.op = "readdir" /\ reply.tag = "dir")
       => \A i \in 1..Len(reply.entries) :
             AcceptedByAll(reply.entries[i].ino, reply.entries[i].kind)

\* the identifier of hello.txt in a subdirectory of the tree
IsTreeFile(ino) ==
    /\ HighField(ino) = HELLO_FILE_NUM
    /\ IsTreeDir(LowField(ino))
    /\ LowField(ino) # ROOT_INO

\* C3: read on a valid file identifier returns the suffix of the content from
\* offset when 0 <= offset <= 13, an empty result when offset > 13, and never
\* an error or an abort.
C3_ReadNeverFails ==
    (req.op = "read" /\ Answered /\ IsTreeFile(req.ino) /\ req.offset >= 0)
    => /\ reply.tag = "data"
       /\ req.offset <= 13
          => reply.data = SubSeq(HELLO_TXT_CONTENT, req.offset + 1, 13)
       /\ req.offset > 13 => reply.data = <<>>

\* C4: while a readdir is in its delay, a request that waits can be given to
\* its handler: no handler holds the filesystem across the sleep.
C4_DelayBlocksOnlyItsRequest ==
    (pc = "sleep" /\ waiting > 0)
    => ENABLED (Lookup \/ Getattr \/ Read \/ Readdir)

\* C5: getattr and read reply Not-Found on every file identifier whose
\* directory number is 0 or above num_dirs + 1.
C5_FileOfInvalidDirectory ==
    (req.op \in {"getattr", "read"} /\ Answered /\ HighField(req.ino) # 0
        /\ ~IsTreeDir(LowField(req.ino)))
    => reply = NotFound

\* the root listing as readdir builds it when its allocations are granted
RootListing == readdir_entries(num_dirs, ROOT_INO, NoFailure).entries

\* C6: lookup(root, name) succeeds exactly for the names generated for
\* subdirectories 1..num_dirs, resolves the name of n to subdirectory n (the
\* identifier the root listing gives under that name), and replies Not-Found
\* for every other name.
C6_LookupRootNames ==
    (req.op = "lookup" /\ req.ino = ROOT_INO /\ Answered)
    => LET gen == {n \in 1..num_dirs : dir_name(n) = req.name}
       IN  IF gen # {}
           THEN /\ reply.tag = "entry"
                /\ reply.attr.kind = "Directory"
                /\ reply.attr.ino # ROOT_INO
                /\ \A n \in gen : reply.attr.ino = n + 1
                /\ \E i \in 1..Len(RootListing) :
                      /\ RootListing[i].name = req.name
                      /\ RootListing[i].ino = reply.attr.ino
           ELSE reply = NotFound


-----------------------------------------------------------------------------
\* C7 as stated: for every n and every (p, f) the encoders accept, decoding
\* the encoded identifier gives Directory(n), respectively File(p, f); and
\* decode gives the File variant exactly when the high field is nonzero.
C7_RoundTripAllAccepted ==
    /\ (codec.op = "dir" /\ IsSome(codec.enc))
       => codec.dec = [kind |-> "Dir", dir |-> codec.n, file |-> 0]
    /\ (codec.op = "file" /\ IsSome(codec.enc))
       => codec.dec = [kind |-> "File", dir |-> codec.p, file |-> codec.f]
    /\ (codec.op # "none" /\ IsSome(codec.enc))
       => (codec.dec.kind = "File" <=> HighField(Unwrap(codec.enc)) # 0)

\* C7 as amended: the round trip holds for every accepted directory number
\* n >= 1 and every accepted (p, f) with file number f >= 1; decode gives the
\* File variant exactly when the high field is nonzero.
C7_RoundTripNonZero ==
    /\ (codec.op = "dir" /\ IsSome(codec.enc) /\ codec.n >= 1)
       => codec.dec = [kind |-> "Dir", dir |-> codec.n, file |-> 0]
    /\ (codec.op = "file" /\ IsSome(codec.enc) /\ codec.f >= 1)
       => codec.dec = [kind |-> "File", dir |-> codec.p, file |-> codec.f]
    /\ (codec.op # "none" /\ IsSome(codec.enc))
       => (codec.dec.kind = "File" <=> HighField(Unwrap(codec.enc)) # 0)

C7_Witness ==
    /\ codec.op = "file"
    /\ codec.p = MAX_DIRS
    /\ codec.f = MAX_FILES
    /\ IsSome(codec.enc)
    /\ codec.dec.kind = "File"

\* the listing the tree has for directory number d: the root lists itself
\* twice and its subdirectories in ascending order, a subdirectory lists
\* itself, the root and hello.txt
RECURSIVE TreeSubdirs(_)
TreeSubdirs(n) ==
    IF n = 0 THEN <<>>
    ELSE Append(TreeSubdirs(n - 1),
                [ino |-> n + 1, kind |-> "Directory", name |-> dir_name(n)])

TreeListing(d) ==
    IF d = ROOT_INO
    THEN <<[ino |-> ROOT_INO, kind |-> "Directory", name |-> DOT],
           [ino |-> ROOT_INO, kind |-> "Directory", name |-> DOTDOT]>>
         \o TreeSubdirs(num_dirs)
    ELSE <<[ino |-> d, kind |-> "Directory", name |-> DOT],
           [ino |-> ROOT_INO, kind |-> "Directory", name |-> DOTDOT],
           [ino |-> HELLO_FILE_NUM * FieldSize + d, kind |-> "RegularFile",
            name |-> HELLO_TXT]>>

WithoutOffsets(es) ==
    [i \in 1..Len(es) |->
        [ino |-> es[i].ino, kind |-> es[i].kind, name |-> es[i].name]]

\* C8: for a valid directory with full listing of length L, readdir(id, k)
\* for k in 0..L emits the listing from index k on, stopping early only when
\* the buffer is full, each entry with next-offset index + 1; a client that
\* starts at 0 and resumes from the last next-offset gets every entry once, in
\* order, for any capacity >= 1; readdir(id, L) emits nothing.  Stated of the
\* calls whose allocations are all granted.
C8_Pagination ==
    IsTreeDir(walk.ino)
    => /\ (walk.st = "called" /\ Answered /\ Granted)
          => LET full == TreeListing(walk.ino)
                 k == walk.next
                 m == Min(walk.cap, Len(full) - k)
             IN  /\ k <= Len(full)
                 /\ reply.tag = "dir"
                 /\ Len(reply.entries) = m
                 /\ \A j \in 1..m :
                       reply.entries[j] =
                           [ino |-> full[k + j].ino, offset |-> k + j,
                            kind |-> full[k + j].kind, name |-> full[k + j].name]
       /\ walk.st = "done" => WithoutOffsets(walk.got) = TreeListing(walk.ino)
       /\ walk.st # "failed"

\* C9: every directory count the builder accepts gives a mount in which
\* num_dirs + 1 fits the directory field, lookup of the last subdirectory's
\* name succeeds and readdir(root, 0) lists num_dirs + 2 entries without
\* failing or aborting, when its allocations are all granted.
C9_AcceptedCountsAddressable ==
    /\ phase \in {"built", "mounted", "panicked", "aborted"}
       => num_dirs + 1 <= MAX_DIRS
    /\ (req.op = "lookup" /\ Answered /\ req.ino = ROOT_INO /\ num_dirs >= 1
          /\ req.name = dir_name(num_dirs))
       => reply.tag = "entry"
    /\ (req.op = "readdir" /\ Answered /\ Granted /\ req.ino = ROOT_INO
          /\ req.offset = 0 /\ req.cap = BigCap)
       => (reply.tag = "dir" /\ Len(reply.entries) = num_dirs + 2)

Pit(a, b, c) == <<"p", "i", "t", a, b, c>>

\* C10: readdir(root, 0) emits '.' and '..' with the root identifier, then one
\* directory entry for every subdirectory 1..num_dirs in ascending order, with
\* pairwise distinct identifiers different from the root's: num_dirs + 2
\* entries; for num_dirs = 3: '.', '..', 'pit001', 'pit002', 'pit003'.  Stated
\* of the calls whose allocations are all granted.
C10_RootListing ==
    (req.op = "readdir" /\ Answered /\ Granted /\ req.ino = ROOT_INO
        /\ req.offset = 0 /\ req.cap = BigCap)
    => LET es == reply.entries
       IN  /\ reply.tag = "dir"
           /\ Len(es) = num_dirs + 2
           /\ es[1].name = DOT /\ es[1].ino = ROOT_INO /\ es[1].kind = "Directory"
           /\ es[2].name = DOTDOT /\ es[2].ino = ROOT_INO /\ es[2].kind = "Directory"
           /\ \A n \in 1..num_dirs :
                 /\ es[n + 2].name = PIT \o ZeroPad3(Decimal(n))
                 /\ es[n + 2].kind = "Directory"
                 /\ es[n + 2].ino # ROOT_INO
                 /\ \A m \in 1..num_dirs : m # n => es[m + 2].ino # es[n + 2].ino
           /\ num_dirs = 3
              => [i \in 1..5 |-> es[i].name]
                 = <<DOT, DOTDOT, Pit("0", "0", "1"), Pit("0", "0", "2"),
                     Pit("0", "0", "3")>>


-----------------------------------------------------------------------------
(* Side conditions: where the statements above do hold.  Each is an         *)
(* invariant of the specification named.                                     *)

\* Spec: getattr accepts directory numbers 1..num_dirs and no other
GetattrRangeAsCoded ==
    (req.op = "getattr" /\ Answered /\ HighField(req.ino) = 0
        /\ LowField(req.ino) >= 1)
    => ((reply.tag = "attr" /\ reply.attr.kind = "Directory")
            <=> LowField(req.ino) <= num_dirs)

\* Spec: read returns the suffix for every offset in 0..13
ReadWithinContent ==
    (req.op = "read" /\ Answered /\ IsTreeFile(req.ino) /\ req.offset >= 0
        /\ req.offset <= 13)
    => C3_ReadNeverFails

\* SpecWalk: pagination for every directory count below MAX_DIRS
PaginationBelowMaxDirs == num_dirs < MAX_DIRS => C8_Pagination

\* Spec: the last subdirectory and the root listing below MAX_DIRS
AddressableBelowMaxDirs == num_dirs < MAX_DIRS => C9_AcceptedCountsAddressable

\* Spec: the root listing for every directory count below MAX_DIRS
RootListingBelowMaxDirs == num_dirs < MAX_DIRS => C10_RootListing

\* Spec: with num_dirs = MAX_DIRS no readdir of the root ever replies a
\* listing, whatever the allocator grants
RootNeverListedAtMaxDirs ==
    (num_dirs = MAX_DIRS /\ req.op = "readdir" /\ req.ino = ROOT_INO
        /\ Answered)
    => reply.tag \in {"panic", "abort"}

\* what the handler of req comes to when every allocation is granted
GrantedOutcome ==
    CASE req.op = "lookup" -> lookup(num_dirs, req.ino, req.name)
      [] req.op = "getattr" -> getattr(num_dirs, num_files, req.ino)
      [] req.op = "read" -> read(req.ino, req.offset)
      [] req.op = "readdir" -> readdir_entries(num_dirs, req.ino, NoFailure).reply
      [] OTHER -> NoReply

\* Spec: the process aborts only where the code allocates: while readdir
\* builds the listing of a directory of the tree, or in a panic
AbortOnlyWhereAllocating ==
    pc = "abort"
    => \/ GrantedOutcome.tag = "panic"
       \/ (req.op = "readdir" /\ HighField(req.ino) = 0
            /\ IsTreeDir(LowField(req.ino)))

\* Spec: a call that panics when every allocation is granted never replies
PanicNeverReplies ==
    (Answered /\ GrantedOutcome.tag = "panic") => reply.tag \in {"panic", "abort"}


-----------------------------------------------------------------------------
\* C11: read on an identifier that decodes to the Directory variant replies
\* Is-A-Directory, never data and never Not-Found; read on a File identifier
\* whose file number is not the exposed one replies Not-Found; readdir on an
\* identifier that decodes to the File variant replies Not-A-Directory and
\* never builds a listing.
C11_TypeMismatchErrors ==
    /\ (req.op = "read" /\ Answered /\ HighField(req.ino) = 0
          /\ LowField(req.ino) # 0)
       => reply = ReplyError("EISDIR")
    /\ (req.op = "read" /\ Answered /\ HighField(req.ino) # 0
          /\ HighField(req.ino) # HELLO_FILE_NUM)
       => reply = NotFound
    /\ (req.op = "readdir" /\ HighField(req.ino) # 0)
       => (pc = "done" /\ reply = ReplyError("ENOTDIR") /\ entries = <<>>)

\* a read of a directory number outside the tree, answered Is-A-Directory
C11_Witness ==
    /\ req.op = "read"
    /\ HighField(req.ino) = 0
    /\ LowField(req.ino) > num_dirs + 1
    /\ reply = ReplyError("EISDIR")
    /\ phase = "mounted"

\* C12: a request with identifier 0 (as the target of getattr, read or
\* readdir, or as the parent of lookup) is answered with one Not-Found reply;
\* it never aborts the handler or the mount, which stays able to answer.
C12_IdentifierZeroNotFound ==
    (req.op # "none" /\ req.ino = 0)
    => (pc = "done" /\ reply = NotFound /\ phase = "mounted")

=============================================================================
